---------------------------- MODULE Spec2Model ----------------------------
(***************************************************************************)
(* A model of activity-finder: the collection of search-result links      *)
(* (main.urls_from_google_search, duplicated as scrape.google_search_urls),*)
(* the extraction of postcodes from text (main.pcs_from_string, duplicated *)
(* as postcode.extract_from_string) and the run of main.main.              *)
(*                                                                         *)
(* A Python str is a sequence of one-character strings.                    *)
(***************************************************************************)
EXTENDS Integers, Sequences, FiniteSets, TLC

VARIABLES
    \* the loop of urls_from_google_search
    ignore_subdomains,  \* the parameter of the call
    hrefs,              \* the hrefs the loop has consumed so far, in order
    links,              \* the local list `links`
    dropped,            \* links the sublink rule has discarded or evicted so far
    \* a call of pcs_from_string or of postcode.sanitize
    text,               \* the argument
    called,             \* "no", "pcs_from_string" or "sanitize"
    returned,           \* what the call returned (or raised)
    \* a run of main()
    stage,              \* where the run is
    home,               \* the home postcode the run is given
    search_terms,       \* the search terms the run is given
    home_pc,            \* the local home_pc
    urls,               \* the local urls
    count,              \* how many urls the loop has taken
    candidates,         \* what of pcs_from_url(url) the inner loop has yet to take
    pcs_seen,           \* the local pcs_seen
    results,            \* the local results
    pages,              \* pcs_from_url(url) of each url taken, in order
    queried,            \* the calls of dist_between_pcs: <<pc, what it returned>>
    printed,            \* the print_info calls of the loop: <<pc, extra>>
    requests            \* how many HTTP requests the run has made

linkVars == <<ignore_subdomains, hrefs, links, dropped>>

textVars == <<text, called, returned>>

runVars ==
    <<stage, home, search_terms, home_pc, urls, count, candidates, pcs_seen,
      results, pages, queried, printed, requests>>

vars == <<linkVars, textVars, runVars>>

-----------------------------------------------------------------------------
(* str helpers *)

\* str.startswith
StartsWith(s, p) ==
    /\ Len(p) <= Len(s)
    /\ SubSeq(s, 1, Len(p)) = p

\* str.endswith, for a one-character suffix
EndsWith(s, c) == Len(s) > 0 /\ s[Len(s)] = c

\* `sub in s` for strings
Contains(sub, s) ==
    \E i \in 0..(Len(s) - Len(sub)) : SubSeq(s, i + 1, i + Len(sub)) = sub

\* s.split(sep)[0]: the part of s before the first sep, or all of s
SplitFirst(s, sep) ==
    IF \E i \in 1..Len(s) : s[i] = sep
    THEN LET i == CHOOSE j \in 1..Len(s) :
                      s[j] = sep /\ \A k \in 1..(j - 1) : s[k] # sep
         IN  SubSeq(s, 1, i - 1)
    ELSE s

HexDigits ==
    <<"0","1","2","3","4","5","6","7","8","9","A","B","C","D","E","F">>

LowerHexDigits ==
    <<"0","1","2","3","4","5","6","7","8","9","a","b","c","d","e","f">>

IsHex(c) == \E i \in 1..16 : HexDigits[i] = c \/ LowerHexDigits[i] = c

HexVal(c) ==
    (CHOOSE i \in 1..16 : HexDigits[i] = c \/ LowerHexDigits[i] = c) - 1

\* chr(), on the ASCII codes of the characters the modelled hrefs are made of;
\* any other byte is shown as "?"
Chr(code) ==
    CASE code = 37  -> "%"
      [] code = 38  -> "&"
      [] code = 47  -> "/"
      [] code = 97  -> "a"
      [] code = 98  -> "b"
      [] code = 104 -> "h"
      [] OTHER      -> "?"

\* urllib.parse.unquote: %XX becomes the character of code XX, a % that is not
\* followed by two hex digits is kept
RECURSIVE Unquote(_)
Unquote(s) ==
    IF s = <<>> THEN <<>>
    ELSE IF s[1] = "%" /\ Len(s) >= 3 /\ IsHex(s[2]) /\ IsHex(s[3])
         THEN <<Chr(16 * HexVal(s[2]) + HexVal(s[3]))>>
                  \o Unquote(SubSeq(s, 4, Len(s)))
         ELSE <<s[1]>> \o Unquote(Tail(s))

-----------------------------------------------------------------------------
(* urls_from_google_search *)

prefix == <<"/","u","r","l","?","q","=","h">>

ignore ==
    <<"w","e","b","c","a","c","h","e",".",
      "g","o","o","g","l","e","u","s","e","r","c","o","n","t","e","n","t",".",
      "c","o","m">>

\* whether the loop body goes past its first two `continue`s
IsResultHref(href) == StartsWith(href, prefix) /\ ~Contains(ignore, href)

\* new_link, from an href that IsResultHref
NewLink(href) ==
    Unquote(SplitFirst(SubSeq(href, Len(prefix), Len(href)), "&"))

\* a sublink test that forgets the path separator
is_sublink_of_NoSlash(sublink, link) == StartsWith(sublink, link)

is_sublink_of(sublink, link) ==
    IF EndsWith(link, "/")
    THEN StartsWith(sublink, link)
    ELSE StartsWith(sublink, link \o <<"/">>)

\* a membership test that looks at the last kept link only
InList_LastOnly(x, seq) == Len(seq) > 0 /\ seq[Len(seq)] = x

\* `x in seq` for lists
InList(x, seq) == \E i \in 1..Len(seq) : seq[i] = x

\* a loop that never evicts a kept link
RemoveSublinks_NoEvict(ls, new_link) == ls

\* the list comprehension that removes the sublinks of new_link
RemoveSublinks(ls, new_link) ==
    SelectSeq(ls, LAMBDA link : ~is_sublink_of(link, new_link))

\* a loop that never discards the new link
IsSublinkOfKept_Never(ls, new_link) == FALSE

\* whether the `any([...])` test makes the loop body `continue`
IsSublinkOfKept(ls, new_link) ==
    \E i \in 1..Len(ls) : is_sublink_of(new_link, ls[i])

\* one iteration of the loop over the hrefs: the value of `links` after it
LoopBody(ls, href, ignoring) ==
    IF ~IsResultHref(href) THEN ls
    ELSE LET new_link == NewLink(href) IN
         IF InList(new_link, ls) THEN ls
         ELSE IF ignoring
              THEN IF IsSublinkOfKept(ls, new_link) THEN ls
                   ELSE Append(RemoveSublinks(ls, new_link), new_link)
              ELSE Append(ls, new_link)

\* the whole loop: the returned list, from the list of hrefs of the page
RECURSIVE CollectLinks(_, _, _)
CollectLinks(ls, hs, ignoring) ==
    IF hs = <<>> THEN ls
    ELSE CollectLinks(LoopBody(ls, Head(hs), ignoring), Tail(hs), ignoring)

-----------------------------------------------------------------------------
(* the hrefs a results page is made of in the model *)

MaxHrefs == 4

UrlQ == <<"/","u","r","l","?","q","=">>

Hrefs ==
    { UrlQ \o <<"h","a">>,
      UrlQ \o <<"h","a","/">>,
      UrlQ \o <<"h","a","/","b","&","a">>,
      UrlQ \o <<"h","a","%","2","F","b">>,
      UrlQ \o <<"h","a","/","b","/","a">>,
      UrlQ \o <<"h","a","b">>,
      <<"/","a">>,
      UrlQ \o <<"h">> \o ignore }

\* every sequence of at most n hrefs
RECURSIVE HrefSeqs(_)
HrefSeqs(n) ==
    IF n = 0 THEN { <<>> }
    ELSE HrefSeqs(n - 1)
           \cup { Append(hs, h) : hs \in { t \in HrefSeqs(n - 1) : Len(t) = n - 1 },
                                  h \in Hrefs }

IdleLinks ==
    /\ ignore_subdomains = FALSE
    /\ hrefs = <<>>
    /\ links = <<>>
    /\ dropped = {}

IdleText ==
    /\ text = <<>>
    /\ called = "no"
    /\ returned = {}

\* a value that may be None: None is <<>>, any other value x is <<x>>
None == <<>>

Some(x) == <<x>>

ValueOf(o) == o[1]

IdleRun ==
    /\ stage = "Idle"
    /\ home = <<>>
    /\ search_terms = <<>>
    /\ home_pc = <<>>
    /\ urls = None
    /\ count = 0
    /\ candidates = {}
    /\ pcs_seen = <<>>
    /\ results = <<>>
    /\ pages = <<>>
    /\ queried = <<>>
    /\ printed = <<>>
    /\ requests = 0

InitLinks ==
    /\ ignore_subdomains \in BOOLEAN
    /\ hrefs = <<>>
    /\ links = <<>>
    /\ dropped = {}
    /\ IdleText
    /\ IdleRun

\* one iteration of `for href in hrefs_from_url(url)`
ProcessHref ==
    /\ Len(hrefs) < MaxHrefs
    /\ \E href \in Hrefs :
          LET after == LoopBody(links, href, ignore_subdomains)
              new_link == NewLink(href)
          IN  /\ hrefs' = Append(hrefs, href)
              /\ links' = after
              /\ dropped' =
                    IF IsResultHref(href) /\ ignore_subdomains
                    THEN dropped
                           \cup { links[i] : i \in { j \in 1..Len(links) :
                                                       ~InList(links[j], after) } }
                           \cup (IF InList(new_link, after) THEN {} ELSE {new_link})
                    ELSE dropped
    /\ UNCHANGED <<ignore_subdomains, textVars, runVars>>

NextLinks == ProcessHref

SpecLinks == InitLinks /\ [][NextLinks]_vars

-----------------------------------------------------------------------------
(* Postcodes: REGEX, pcs_from_string, add_spacing_to_pc, postcode.sanitize *)

Upper ==
    {"A","B","C","D","E","F","G","H","I","J","K","L","M",
     "N","O","P","Q","R","S","T","U","V","W","X","Y","Z"}

Digit == {"0","1","2","3","4","5","6","7","8","9"}

\* what \s matches, among the ASCII characters
Whitespace == {" ", "\t", "\n", "\r", "\f"}

\* how the three variable parts of the regex can be taken, in the order the
\* greedy quantifiers try them: <<letters of [A-Z]{1,2}, characters of
\* [0-9A-Z]?, characters of \s?>>
RegexChoices ==
    << <<2,1,1>>, <<2,1,0>>, <<2,0,1>>, <<2,0,0>>,
       <<1,1,1>>, <<1,1,0>>, <<1,0,1>>, <<1,0,0>> >>

\* the length of the match a choice makes
ChoiceLen(c) == c[1] + 1 + c[2] + c[3] + 3

\* whether the regex matches s at position i with the parts taken as in c
MatchesAs(s, i, c) ==
    LET d  == i + c[1]            \* the first digit
        w  == d + 1 + c[2]        \* where the optional whitespace would be
        n  == w + c[3]            \* the digit of the inward part
    IN  /\ i + ChoiceLen(c) - 1 <= Len(s)
        /\ \A k \in i..(d - 1) : s[k] \in Upper
        /\ s[d] \in Digit
        /\ c[2] = 1 => s[d + 1] \in Digit \cup Upper
        /\ c[3] = 1 => s[w] \in Whitespace
        /\ s[n] \in Digit
        /\ s[n + 1] \in Upper
        /\ s[n + 2] \in Upper

\* the length of the regex's match at position i of s, 0 when there is none
MatchLen(s, i) ==
    IF \E k \in 1..Len(RegexChoices) : MatchesAs(s, i, RegexChoices[k])
    THEN ChoiceLen(RegexChoices[
             CHOOSE k \in 1..Len(RegexChoices) :
                 /\ MatchesAs(s, i, RegexChoices[k])
                 /\ \A j \in 1..(k - 1) : ~MatchesAs(s, i, RegexChoices[j])])
    ELSE 0

\* re.findall(regex, s), scanning from position i: the non-overlapping
\* matches, leftmost first
RECURSIVE FindAll(_, _)
FindAll(s, i) ==
    IF i > Len(s) THEN <<>>
    ELSE IF MatchLen(s, i) > 0
         THEN <<SubSeq(s, i, i + MatchLen(s, i) - 1)>>
                  \o FindAll(s, i + MatchLen(s, i))
         ELSE FindAll(s, i + 1)

\* pc if ' ' in pc else pc[:-3] + ' ' + pc[-3:]
add_spacing_to_pc(pc) ==
    IF \E i \in 1..Len(pc) : pc[i] = " "
    THEN pc
    ELSE SubSeq(pc, 1, Len(pc) - 3) \o <<" ">>
             \o SubSeq(pc, IF Len(pc) > 3 THEN Len(pc) - 2 ELSE 1, Len(pc))

pcs_from_string(s) ==
    { add_spacing_to_pc(FindAll(s, 1)[k]) : k \in 1..Len(FindAll(s, 1)) }

InvalidPostcode == "InvalidPostcode"

\* postcode.sanitize: re.match looks for a match at the start of pc
sanitize(pc) ==
    IF MatchLen(pc, 1) = 0 THEN InvalidPostcode ELSE add_spacing_to_pc(pc)

-----------------------------------------------------------------------------
(* the texts the two functions are applied to in the model *)

MaxPieces == 3

Pieces ==
    { <<"A","1">>, <<"1","A","A">>, <<"A">>, <<"1">>,
      <<" ">>, <<"\t">>, <<"x">>,
      <<"A","1"," ","1","A","A">>, <<"A","1","1","A","A">> }

RECURSIVE Texts(_)
Texts(n) ==
    IF n = 0 THEN { <<>> }
    ELSE Texts(n - 1) \cup { t \o p : t \in Texts(n - 1), p \in Pieces }

InitText ==
    /\ text \in Texts(MaxPieces)
    /\ called = "no"
    /\ returned = {}
    /\ IdleLinks
    /\ IdleRun

CallPcsFromString ==
    /\ called = "no"
    /\ called' = "pcs_from_string"
    /\ returned' = pcs_from_string(text)
    /\ UNCHANGED <<text, linkVars, runVars>>

CallSanitize ==
    /\ called = "no"
    /\ called' = "sanitize"
    /\ returned' = sanitize(text)
    /\ UNCHANGED <<text, linkVars, runVars>>

NextText == CallPcsFromString \/ CallSanitize

SpecText == InitText /\ [][NextText]_vars

-----------------------------------------------------------------------------
(* main() *)

dist_limit == 20

\* a float: not-a-number, or a number of kilometers
NaN == [nan |-> TRUE, km |-> 0]

Km(d) == [nan |-> FALSE, km |-> d]

\* what pgeocode's query_postal_code can answer in the model
GeoAnswers == {NaN, Km(19), Km(20), Km(21)}

\* dist_between_pcs, from the answer of the geocoding library
dist_between_pcs(answer) == IF answer.nan THEN None ELSE Some(answer.km)

\* a classification that excludes the limit itself
InRange_Strict(dist) == dist < dist_limit

\* the test `dist <= dist_limit`, for a dist that is a number
InRange(dist) == dist <= dist_limit

\* a loop that takes every postcode for new
NotSeen_Always(pc, seen) == TRUE

\* the test `pc not in pcs_seen`
NotSeen(pc, seen) == ~InList(pc, seen)

\* pcs_from_url, from the visible strings of the page
RECURSIVE pcs_from_texts(_)
pcs_from_texts(texts) ==
    IF texts = <<>> THEN {}
    ELSE pcs_from_string(Head(texts)) \cup pcs_from_texts(Tail(texts))

\* urls_from_google_search(search_terms, page, ignore_subdomains), from the
\* hrefs of the results page
urls_from_google_search(terms, page, ignoring, hs) ==
    IF terms = <<>> \/ page < 1 THEN None
    ELSE Some(CollectLinks(<<>>, hs, ignoring))

MaxPageHrefs == 2

\* the home postcodes a run is given in the model
Homes ==
    { <<"A","1"," ","1","A","A">>, <<"A","1","1","A","A">>,
      <<"A","1"," ","1","A","A","x">>, <<"x">> }

\* the search terms a run is given in the model
SearchTerms == { <<>>, <<"parks">> }

\* the visible strings a fetched page can have in the model; none when the
\* connection fails or times out
PageTexts ==
    { <<>>,
      << <<"A","1","1","A","A">> >>,
      << <<"x"," ","B","1"," ","1","A","A">>, <<"A","1"," ","1","A","A">> >>,
      << <<"B","1","1","A","A","x">> >> }

Init ==
    /\ stage = "Idle"
    /\ home \in Homes
    /\ search_terms \in SearchTerms
    /\ home_pc = <<>>
    /\ urls = None
    /\ count = 0
    /\ candidates = {}
    /\ pcs_seen = <<>>
    /\ results = <<>>
    /\ pages = <<>>
    /\ queried = <<>>
    /\ printed = <<>>
    /\ requests = 0
    /\ IdleLinks
    /\ IdleText

\* home_pc = add_spacing_to_pc(...); results, pcs_seen = [], []
Start ==
    /\ stage = "Idle"
    /\ home_pc' = add_spacing_to_pc(home)
    /\ stage' = "CollectingLinks"
    /\ UNCHANGED <<home, search_terms, urls, count, candidates, pcs_seen,
                   results, pages, queried, printed, requests>>
    /\ UNCHANGED <<linkVars, textVars>>

\* urls = urls_from_google_search(search_terms): one request for the results
\* page when the call gets as far as making it
Search ==
    /\ stage = "CollectingLinks"
    /\ \E hs \in HrefSeqs(MaxPageHrefs) :
          urls' = urls_from_google_search(search_terms, 1, FALSE, hs)
    /\ requests' = IF urls' = None THEN requests ELSE requests + 1
    /\ stage' = "Searched"
    /\ UNCHANGED <<home, search_terms, home_pc, count, candidates, pcs_seen,
                   results, pages, queried, printed>>
    /\ UNCHANGED <<linkVars, textVars>>

\* `for count, url in enumerate(urls)` is entered: enumerate(None) raises
EnterLoop ==
    /\ stage = "Searched"
    /\ stage' = IF urls = None THEN "TypeError" ELSE "PerLink"
    /\ UNCHANGED <<home, search_terms, home_pc, urls, count, candidates,
                   pcs_seen, results, pages, queried, printed, requests>>
    /\ UNCHANGED <<linkVars, textVars>>

\* the outer loop takes the next url and pcs_from_url(url) fetches it
FetchPage ==
    /\ stage = "PerLink"
    /\ candidates = {}
    /\ count < Len(ValueOf(urls))
    /\ \E texts \in PageTexts :
          /\ candidates' = pcs_from_texts(texts)
          /\ pages' = Append(pages, pcs_from_texts(texts))
    /\ count' = count + 1
    /\ requests' = requests + 1
    /\ UNCHANGED <<stage, home, search_terms, home_pc, urls, pcs_seen, results,
                   queried, printed>>
    /\ UNCHANGED <<linkVars, textVars>>

\* one iteration of `for pc in pcs_from_url(url)`, in whatever order the set
\* is iterated
TakePostcode ==
    /\ stage = "PerLink"
    /\ \E pc \in candidates :
          /\ candidates' = candidates \ {pc}
          /\ IF NotSeen(pc, pcs_seen)
             THEN /\ pcs_seen' = Append(pcs_seen, pc)
                  /\ \E answer \in GeoAnswers :
                        LET dist == dist_between_pcs(answer) IN
                        /\ queried' = Append(queried, <<pc, dist>>)
                        /\ IF dist = None
                           THEN \* None <= dist_limit raises
                                /\ stage' = "TypeError"
                                /\ UNCHANGED <<results, printed>>
                           ELSE IF InRange(ValueOf(dist))
                           THEN /\ printed' = Append(printed, <<pc, "in range">>)
                                /\ results' =
                                      Append(results,
                                             [pc |-> pc,
                                              url |-> ValueOf(urls)[count],
                                              dist |-> ValueOf(dist)])
                                /\ UNCHANGED stage
                           ELSE /\ printed' =
                                      Append(printed, <<pc, "out of range">>)
                                /\ UNCHANGED <<stage, results>>
             ELSE UNCHANGED <<stage, pcs_seen, queried, results, printed>>
    /\ UNCHANGED <<home, search_terms, home_pc, urls, count, pages, requests>>
    /\ UNCHANGED <<linkVars, textVars>>

\* the outer loop ends and the results are printed
Finish ==
    /\ stage = "PerLink"
    /\ candidates = {}
    /\ count = Len(ValueOf(urls))
    /\ stage' = "Done"
    /\ UNCHANGED <<home, search_terms, home_pc, urls, count, candidates,
                   pcs_seen, results, pages, queried, printed, requests>>
    /\ UNCHANGED <<linkVars, textVars>>

Next == Start \/ Search \/ EnterLoop \/ FetchPage \/ TakePostcode \/ Finish

Spec == Init /\ [][Next]_vars

-----------------------------------------------------------------------------
(* Properties of the link collection *)

Range(seq) == { seq[i] : i \in 1..Len(seq) }

\* the decoded, query-stripped links of the result hrefs of hs, in order
RECURSIVE ResultLinks(_)
ResultLinks(hs) ==
    IF hs = <<>> THEN <<>>
    ELSE IF IsResultHref(Head(hs))
         THEN <<NewLink(Head(hs))>> \o ResultLinks(Tail(hs))
         ELSE ResultLinks(Tail(hs))

\* s without the later repetitions of its elements: the first i elements
RECURSIVE FirstOccurrences(_, _)
FirstOccurrences(s, i) ==
    IF i = 0 THEN <<>>
    ELSE IF \E j \in 1..(i - 1) : s[j] = s[i]
         THEN FirstOccurrences(s, i - 1)
         ELSE Append(FirstOccurrences(s, i - 1), s[i])

\* the sublink relation as the specification words it:
\* x starts with y if y ends with "/", else x starts with y + "/"
PathPrefix(y) == IF y[Len(y)] = "/" THEN y ELSE y \o <<"/">>

SublinkRel(x, y) ==
    /\ Len(x) >= Len(PathPrefix(y))
    /\ \A i \in 1..Len(PathPrefix(y)) : x[i] = PathPrefix(y)[i]

\* the orderings of the hrefs consumed so far
Orderings(hs) ==
    { [i \in 1..Len(hs) |-> hs[p[i]]] : p \in Permutations(1..Len(hs)) }

\* C1: with ignore_subdomains, after every iteration of the loop no kept link
\* is a sublink of another kept link: the kept list is an antichain.
C1_KeptIsAntichain ==
    ignore_subdomains =>
        \A i, j \in 1..Len(links) :
            links[i] # links[j] => ~SublinkRel(links[i], links[j])

\* a parent has evicted a child and more than one link is kept
C1_Witness ==
    /\ ignore_subdomains
    /\ Len(links) >= 2
    /\ \E d \in dropped : \E i \in 1..Len(links) : SublinkRel(d, links[i])
    /\ \E i \in 1..Len(hrefs) :
          /\ IsResultHref(hrefs[i])
          /\ NewLink(hrefs[i]) \in dropped
          /\ ~IsSublinkOfKept(CollectLinks(<<>>, SubSeq(hrefs, 1, i - 1), TRUE),
                              NewLink(hrefs[i]))

\* C2: without ignore_subdomains the kept list is the list of result links
\* with every later exact repetition removed: nothing else is dropped and
\* nothing is reordered.
C2_ExactDedupOnly ==
    ~ignore_subdomains =>
        links = FirstOccurrences(ResultLinks(hrefs), Len(ResultLinks(hrefs)))

\* a repetition was removed and a link and its sublink are both kept
C2_Witness ==
    /\ ~ignore_subdomains
    /\ Len(ResultLinks(hrefs)) > Len(links)
    /\ \E i, j \in 1..Len(links) : i < j /\ SublinkRel(links[i], links[j])

\* C7, as stated: there are two orderings of the same hrefs for which the
\* returned lists hold different sets of links (the hrefs being any sequence
\* of at most MaxHrefs that continues the ones consumed so far).
C7_OrderChangesSet ==
    \E hs \in HrefSeqs(MaxHrefs) : \E other \in Orderings(hs) :
        /\ StartsWith(hs, hrefs)
        /\ Range(CollectLinks(<<>>, hs, TRUE)) # Range(CollectLinks(<<>>, other, TRUE))

\* C7, amended: with ignore_subdomains every ordering of the same hrefs
\* returns the same set of links; only the order of the list depends on the
\* order of the input.
C7_SameSetAnyOrder ==
    ignore_subdomains =>
        \A other \in Orderings(hrefs) :
            Range(CollectLinks(<<>>, other, TRUE)) = Range(links)

\* another ordering of the consumed hrefs returns a different list, and the
\* sublink rule has acted
C7_Witness ==
    /\ ignore_subdomains
    /\ dropped # {}
    /\ Len(links) >= 2
    /\ \E other \in Orderings(hrefs) : CollectLinks(<<>>, other, TRUE) # links

\* C10: with ignore_subdomains the kept list is the distinct result links that
\* are a sublink of no other result link, in the order of their first
\* occurrence, and a link the sublink rule discarded or evicted is not kept
\* again.
C10_MinimalLinksInFirstOrder ==
    ignore_subdomains =>
        LET input == ResultLinks(hrefs) IN
        /\ links =
              SelectSeq(FirstOccurrences(input, Len(input)),
                        LAMBDA x : ~\E y \in Range(input) :
                                        y # x /\ SublinkRel(x, y))
        /\ dropped \cap Range(links) = {}

\* a parent that arrived after two of its sublinks is kept last, both are
\* gone, and one of them arrived again afterwards
C10_Witness ==
    /\ ignore_subdomains
    /\ Cardinality(dropped) >= 2
    /\ Len(links) >= 1
    /\ \A d \in dropped : SublinkRel(d, links[Len(links)])
    /\ IsResultHref(hrefs[Len(hrefs)])
    /\ NewLink(hrefs[Len(hrefs)]) \in dropped

-----------------------------------------------------------------------------
(* Properties of the run *)

\* the number of the first page taken so far that holds pc, 0 when none does
FirstPageWith(pc) ==
    IF \E k \in 1..Len(pages) : pc \in pages[k]
    THEN CHOOSE k \in 1..Len(pages) :
             pc \in pages[k] /\ \A j \in 1..(k - 1) : pc \notin pages[j]
    ELSE 0

\* whether the whole of s has the postcode shape
IsPostcodeShaped(s) ==
    \E k \in 1..Len(RegexChoices) :
        MatchesAs(s, 1, RegexChoices[k]) /\ ChoiceLen(RegexChoices[k]) = Len(s)

\* C3: in one run each postcode is resolved and classified at most once, the
\* results hold at most one Result per postcode, and the url of that Result is
\* the first link, in link order, whose page holds the postcode.
C3_OncePerPostcodeFirstPage ==
    /\ \A i, j \in 1..Len(queried) : queried[i][1] = queried[j][1] => i = j
    /\ \A i, j \in 1..Len(printed) : printed[i][1] = printed[j][1] => i = j
    /\ \A i, j \in 1..Len(results) : results[i].pc = results[j].pc => i = j
    /\ \A i \in 1..Len(results) :
          /\ FirstPageWith(results[i].pc) > 0
          /\ results[i].url = ValueOf(urls)[FirstPageWith(results[i].pc)]

\* the run is over, a postcode of the first page was on the second page too,
\* and its one Result names the first link
C3_Witness ==
    /\ stage = "Done"
    /\ Len(pages) >= 2
    /\ \E i \in 1..Len(results) :
          /\ results[i].pc \in pages[1] \cap pages[2]
          /\ results[i].url = ValueOf(urls)[1]
          /\ ValueOf(urls)[1] # ValueOf(urls)[2]

\* C4: a postcode whose distance is unknown (None) is added to the seen list,
\* gets no Result and no classification, and raises no error: the run goes on
\* (stated of the runs whose home postcode has the postcode shape).
C4_UnknownDistanceIsSkipped ==
    \A i \in 1..Len(queried) :
        (IsPostcodeShaped(home) /\ queried[i][2] = None) =>
            /\ InList(queried[i][1], pcs_seen)
            /\ \A k \in 1..Len(results) : results[k].pc # queried[i][1]
            /\ \A k \in 1..Len(printed) : printed[k][1] # queried[i][1]
            /\ stage # "TypeError"

\* C5: with no search terms the search signals no results without raising and
\* the run treats that as zero links: no error, no page fetched, no Result
\* (stated of the runs whose home postcode has the postcode shape).
C5_NoLinksEndsRunNormally ==
    (/\ IsPostcodeShaped(home)
     /\ search_terms = <<>>
     /\ stage \notin {"Idle", "CollectingLinks"}) =>
        /\ urls = None
        /\ stage # "TypeError"
        /\ requests = 0
        /\ results = <<>>

\* C6: a run given a home postcode that does not have the postcode shape ends
\* in InvalidPostcode before any request is made and with no Result; a run
\* given one that has the shape normalizes it at the start and never ends in
\* InvalidPostcode.
C6_InvalidHomeAbortsRun ==
    /\ ~IsPostcodeShaped(home) =>
          /\ stage \in {"Idle", "CollectingLinks", InvalidPostcode}
          /\ requests = 0
          /\ results = <<>>
    /\ IsPostcodeShaped(home) =>
          /\ stage # InvalidPostcode
          /\ stage # "Idle" =>
                /\ Len(home_pc) > 3
                /\ home_pc[Len(home_pc) - 3] = " "
                /\ \A i \in 1..Len(home_pc) :
                      home_pc[i] = " " => i = Len(home_pc) - 3

\* C9: a newly seen postcode of known distance d gets a Result exactly when
\* d <= dist_limit, the limit included; with d > dist_limit it is reported out
\* of range and gets no Result.
C9_InRangeIffWithinLimit ==
    \A i \in 1..Len(queried) :
        queried[i][2] # None =>
            LET pc == queried[i][1]
                d  == ValueOf(queried[i][2])
                kept == \E k \in 1..Len(results) :
                            results[k].pc = pc /\ results[k].dist = d
            IN  /\ kept <=> ~(d > 20)
                /\ d > 20 =>
                      /\ InList(<<pc, "out of range">>, printed)
                      /\ \A k \in 1..Len(results) : results[k].pc # pc

\* a postcode exactly at the limit has a Result and another, beyond the
\* limit, was reported out of range
C9_Witness ==
    /\ \E k \in 1..Len(results) : results[k].dist = dist_limit
    /\ \E i \in 1..Len(queried) :
          /\ queried[i][2] = Some(dist_limit + 1)
          /\ InList(<<queried[i][1], "out of range">>, printed)

-----------------------------------------------------------------------------
(* Properties of the extraction *)

\* C8: every postcode pcs_from_string returns is normalized: its one space is
\* the only separator of its two parts, with exactly 3 characters after it, so
\* that the occurrences of a postcode, however separated, give one element.
C8_ExtractedAreNormalized ==
    called = "pcs_from_string" =>
        \A p \in returned :
            /\ Len(p) > 3
            /\ p[Len(p) - 3] = " "
            /\ \A i \in 1..Len(p) :
                  p[i] \in Whitespace => i = Len(p) - 3

=============================================================================
